---------------------------- MODULE Spec2Model ----------------------------
(***************************************************************************)
(* Verification model of the ArchGenie backend (src/backend/api.py):       *)
(*   - azure_retail_prices_fetch : the paginated catalog client            *)
(*   - the azure_price_for_* resolvers, the price cache and price_items    *)
(*   - normalize_to_items        : keyword detectors over the scan buffer  *)
(*   - sanitize_mermaid          : the regex/line repair pass              *)
(* Each component has its own specification over the shared variables; the *)
(* variables a specification does not use stay at their initial value.     *)
(*                                                                         *)
(* Money is kept in exact integers: a catalog retailPrice is a number of   *)
(* mills (1/1000 USD), every monthly figure is a number of cents.          *)
(***************************************************************************)
EXTENDS Integers, Sequences, FiniteSets, TLC

VARIABLES
    \* ---- azure_retail_prices_fetch (one call) ----
    fpc,        \* "idle" | "loop" | "done" | "raised"
    limit,      \* the call's limit argument
    out,        \* records accumulated so far
    tries,      \* loop counter
    requests,   \* page requests issued by the call
    lastStatus, \* status code of the last response (0: none yet)
    nextLink,   \* whether the last response carried NextPageLink
    result,     \* the returned list
    \* ---- the process and its environment, as the resolvers see them ----
    catalog,    \* the records of the Retail Prices catalog, in catalog order
    vorder,     \* region -> the order in which list(set) iterates its variants
    cache,      \* _price_cache: key -> [val, exp]
    now,        \* time.time()
    \* ---- one call of a resolver ----
    rpc,        \* "idle" | "done"
    rq,         \* the call: [service, sku, region, fault]
    rres,       \* its outcome: [raised, val, calls, cache]
    log,        \* the resolver calls made so far: [key, at, val, calls, raised]
    \* ---- price_items ----
    req,        \* the items of the last call
    faults,     \* faults[i]: the catalog request made for item i fails
    resp,       \* the returned estimate: [items, notes, total], or NoResp
    seen,       \* seen[i]: the cache as it was when item i was priced
    \* ---- normalize_to_items ----
    npc,        \* "idle" | "done"
    ask,        \* the three texts, as sequences of words
    diagram,
    tf,
    nitems,     \* the returned list
    \* ---- sanitize_mermaid ----
    spc,        \* "idle" | "once" | "twice"
    src,        \* the input text, a sequence of characters
    once,       \* sanitize_mermaid(src)
    twice       \* sanitize_mermaid(once)

fetchVars == <<fpc, limit, out, tries, requests, lastStatus, nextLink, result>>

envVars == <<catalog, vorder, cache, now>>

resolverVars == <<rpc, rq, rres, log>>

pricingVars == <<req, faults, resp, seen>>

normVars == <<npc, ask, diagram, tf, nitems>>

sanVars == <<spc, src, once, twice>>

vars == <<fetchVars, envVars, resolverVars, pricingVars, normVars, sanVars>>

(***************************************************************************)
(* Generic helpers                                                         *)
(***************************************************************************)
Min(a, b) == IF a <= b THEN a ELSE b

Max(a, b) == IF a >= b THEN a ELSE b

\* Python's s[:n] for n >= 0
Take(s, n) == SubSeq(s, 1, Min(n, Len(s)))

(***************************************************************************)
(* azure_retail_prices_fetch                                               *)
(***************************************************************************)
\* the loop is left once tries exceeds this (while True ... tries > 20)
MaxTries == 20

\* bounds of the fetch model
MaxLimit == 3

MaxPageItems == 2

StatusCodes == {200, 301, 404, 500}

\* r.status_code >= 300
NonSuccess(status) == status >= 300

\* `not next_link or tries > 20`
MutLoopEnds(t, hasNext) == (~hasNext) \/ t > 2 * MaxTries

LoopEnds(t, hasNext) == (~hasNext) \/ t > MaxTries

\* out[:limit]
MutTruncate(s, n) == s

Truncate(s, n) == Take(s, n)

\* return value when a page answers with a non-success status: `return []`
MutNonSuccessResult(acc) == acc

NonSuccessResult(acc) == << >>

\* the k records of a page; records are numbered in arrival order
PageItems(acc, k) == [i \in 1..k |-> Len(acc) + i]

FetchIdle ==
    /\ fpc = "idle"
    /\ limit = 0
    /\ out = << >>
    /\ tries = 0
    /\ requests = 0
    /\ lastStatus = 0
    /\ nextLink = FALSE
    /\ result = << >>

\* entry of the function: out = [], url = base, tries = 0
FetchCall(lim) ==
    /\ fpc = "idle"
    /\ fpc' = "loop"
    /\ limit' = lim
    /\ out' = << >>
    /\ tries' = 0
    /\ requests' = 0
    /\ UNCHANGED <<lastStatus, nextLink, result>>
    /\ UNCHANGED <<envVars, resolverVars, pricingVars, normVars, sanVars>>

\* requests.get raises (connection error, timeout) or r.json() raises
FetchPageRaises ==
    /\ fpc = "loop"
    /\ tries' = tries + 1
    /\ requests' = requests + 1
    /\ fpc' = "raised"
    /\ UNCHANGED <<limit, out, lastStatus, nextLink, result>>
    /\ UNCHANGED <<envVars, resolverVars, pricingVars, normVars, sanVars>>

\* one iteration of the while loop with a response of status `status`,
\* k records in "Items" and, when hasNext, a NextPageLink
FetchPage(status, k, hasNext) ==
    /\ fpc = "loop"
    /\ tries' = tries + 1
    /\ requests' = requests + 1
    /\ lastStatus' = status
    /\ UNCHANGED limit
    /\ UNCHANGED <<envVars, resolverVars, pricingVars, normVars, sanVars>>
    /\ IF NonSuccess(status)
       THEN /\ result' = NonSuccessResult(out)
            /\ fpc' = "done"
            /\ UNCHANGED <<out, nextLink>>
       ELSE /\ out' = out \o PageItems(out, k)
            /\ nextLink' = hasNext
            /\ IF Len(out') >= limit
               THEN /\ result' = Truncate(out', limit)
                    /\ fpc' = "done"
               ELSE IF LoopEnds(tries', hasNext)
               THEN /\ result' = out'
                    /\ fpc' = "done"
               ELSE /\ fpc' = "loop"
                    /\ UNCHANGED result

FetchNext ==
    \/ \E lim \in 1..MaxLimit : FetchCall(lim)
    \/ FetchPageRaises
    \/ \E status \in StatusCodes, k \in 0..MaxPageItems, hasNext \in BOOLEAN :
          FetchPage(status, k, hasNext)

(***************************************************************************)
(* Values, rounding and text tests used by the price resolvers             *)
(***************************************************************************)
\* Python's None / a present value
None == [some |-> FALSE, v |-> 0]

Some(x) == [some |-> TRUE, v |-> x]

\* HOURS_PER_MONTH = float(os.getenv("HOURS_PER_MONTH", "730"))
HOURS_PER_MONTH == 730

\* round(n / d) to the nearest integer, ties to even (Python's round on the
\* exact quotient; the binary representation of a float tie is not modelled)
RoundHalfEven(n, d) ==
    LET q == n \div d
        r == n - q * d
    IN  IF 2 * r < d THEN q
        ELSE IF 2 * r > d THEN q + 1
        ELSE IF q % 2 = 0 THEN q ELSE q + 1

\* <<s, w>>: the lower-cased text s contains w (Python `w in s.lower()`),
\* for the unitOfMeasure and meterName texts of the model's catalog records
LowerContains == {
    <<"1 Hour", "hour">>, <<"1 GB/Month", "gb">>, <<"1 GB", "gb">>, <<"S1 App", "s1">>,
    <<"B2s", "b2s">>, <<"S0 DTUs", "dtu">>, <<"S0 DTUs", "s0">>, <<"S0 Data Stored", "data">>,
    <<"S0 Data Stored", "s0">>, <<"vCore", "vcore">>, <<"Backup Storage", "backup">>,
    <<"Backup Storage", "storage">>, <<"LRS Data Stored", "data">>,
    <<"LRS Write Operations", "io">>, <<"C1 Cache", "c1">>, <<"Data Ingestion", "data">>,
    <<"Data Ingestion", "io">>, <<"Standard Overage LB Rules", "rule">>,
    <<"Standard Data Processed", "data">>, <<"Standard Data Processed", "processed">>,
    <<"Standard Data Processed", "data processed">>, <<"Standard Gateway", "gateway">>,
    <<"Standard Capacity Units", "capacity">>, <<"Standard Capacity Units", "capacity unit">> }

InLower(w, s) == <<s, w>> \in LowerContains

\* <<s, w>>: the text s contains w as written (the catalog's contains(field, 'w'))
FieldContains == {
    <<"Azure App Service Standard Plan", "App Service">>,
    <<"SQL Database Single Standard", "SQL Database">>, <<"Load Balancer", "Load Balancer">>,
    <<"Application Gateway WAF v2", "Application Gateway">>, <<"S1", "S1">>, <<"S0", "S0">>,
    <<"Hot LRS", "LRS">>, <<"Standard LRS", "LRS">>, <<"S1 App", "S1">>, <<"S0 DTUs", "S0">>,
    <<"S0 Data Stored", "S0">>, <<"LRS Data Stored", "LRS">>, <<"LRS Write Operations", "LRS">> }

Contains(s, w) == <<s, w>> \in FieldContains

\* str.lower() of the SKU names and of the input words of the model
Lower(s) ==
    CASE s = "S0" -> "s0"
      [] s = "S1" -> "s1"
      [] s = "B2s" -> "b2s"
      [] s = "C1" -> "c1"
      [] s = "VM" -> "vm"
      [] s = "LB" -> "lb"
      [] s = "Application" -> "application"
      [] OTHER -> s

RECURSIVE Flatten(_)
Flatten(ss) == IF Len(ss) = 0 THEN << >> ELSE Head(ss) \o Flatten(Tail(ss))

\* all orders in which the elements of a set can be iterated
Orders(S) ==
    {s \in [1..Cardinality(S) -> S] : \A i, j \in 1..Cardinality(S) : s[i] = s[j] => i = j}

(***************************************************************************)
(* Price cache                                                             *)
(***************************************************************************)
TTL == 3600

EmptyCache == [k \in {} |-> [val |-> 0, exp |-> 0]]

MutCacheGet(c, key, t) ==
    IF key \in DOMAIN c /\ c[key].exp >= t THEN Some(c[key].val) ELSE None

\* cache_get: the stored value while exp > time.time(), else None
cache_get(c, key, t) ==
    IF key \in DOMAIN c /\ c[key].exp > t THEN Some(c[key].val) ELSE None

\* cache_put: _price_cache[key] = (value, time.time() + ttl_sec)
cache_put(c, key, value, t) ==
    [k \in (DOMAIN c) \cup {key} |->
        IF k = key THEN [val |-> value, exp |-> t + TTL] ELSE c[k]]

(***************************************************************************)
(* Region variants                                                         *)
(***************************************************************************)
DEFAULT_REGION == "eastus"

\* region_variants(region) as a set, computed for the regions of the model:
\* {r, r.lower(), mapped name, r with '-' as ' ', its title(), "<X> US"}
region_variants(region) ==
    CASE region = "eastus" -> {"eastus", "US East", "Eastus", "East US"}
      [] region = "westeurope" -> {"westeurope", "EU West", "Westeurope"}
      [] region = "uksouth" -> {"uksouth", "Uksouth"}
      [] region = "" -> {}
      [] OTHER -> {region}

\* list(variants): the iteration order of a Python set is not specified; a
\* process iterates equal sets in one order. Sets of more than three
\* variants are iterated in one of two listed orders.
VariantOrders(region) ==
    IF region = "eastus"
    THEN { <<"eastus", "US East", "Eastus", "East US">>,
           <<"East US", "Eastus", "US East", "eastus">> }
    ELSE Orders(region_variants(region))

(***************************************************************************)
(* Catalog records and the catalog's answer to a filter                    *)
(***************************************************************************)
\* a catalog record: serviceName, productName, skuName, armRegionName,
\* meterName, unitOfMeasure, retailPrice (in mills)
Rec(svc, prod, sku, reg, meter, uom, price) ==
    [svc |-> svc, prod |-> prod, sku |-> sku, reg |-> reg,
     meter |-> meter, uom |-> uom, price |-> price]

\* a $filter: "" stands for a condition the filter does not state
Filter(svc, prodHas, skuEq, skuHas, meterHas, reg) ==
    [svc |-> svc, prodHas |-> prodHas, skuEq |-> skuEq, skuHas |-> skuHas,
     meterHas |-> meterHas, reg |-> reg]

\* the catalog's evaluation of a filter on one record; every filter of the
\* program ends in "armRegionName eq '<reg>' and retailPrice ne 0"
Matches(r, f) ==
    /\ r.price # 0
    /\ r.reg = f.reg
    /\ f.svc = "" \/ r.svc = f.svc
    /\ f.prodHas = "" \/ Contains(r.prod, f.prodHas)
    /\ f.skuEq = "" \/ r.sku = f.skuEq
    /\ f.skuHas = "" \/ Contains(r.sku, f.skuHas)
    /\ f.meterHas = "" \/ Contains(r.meter, f.meterHas)

\* what azure_retail_prices_fetch(filter, limit) returns when every page
\* answers with success: the matching records in catalog order, cut to limit
Fetch(cat, f, lim) == Truncate(SelectSeq(cat, LAMBDA r : Matches(r, f)), lim)

\* a chain of filters tried in order until one returns records
\* (`items = fetch(flt); if not items: items = fetch(alt)`)
RECURSIVE ChainItems(_, _, _)
ChainItems(cat, chain, lim) ==
    IF Len(chain) = 0 THEN << >>
    ELSE LET got == Fetch(cat, Head(chain), lim)
         IN  IF Len(got) > 0 \/ Len(chain) = 1 THEN got
             ELSE ChainItems(cat, Tail(chain), lim)

\* the number of requests such a chain issues
RECURSIVE ChainCalls(_, _, _)
ChainCalls(cat, chain, lim) ==
    IF Len(chain) = 0 THEN 0
    ELSE IF Len(Fetch(cat, Head(chain), lim)) > 0 \/ Len(chain) = 1 THEN 1
    ELSE 1 + ChainCalls(cat, Tail(chain), lim)

RECURSIVE SumCalls(_, _, _)
SumCalls(cat, chains, lim) ==
    IF Len(chains) = 0 THEN 0
    ELSE ChainCalls(cat, Head(chains), lim) + SumCalls(cat, Tail(chains), lim)

(***************************************************************************)
(* monthly_from_retail and the selection policy                            *)
(***************************************************************************)
\* "hour" in unitOfMeasure.lower()
IsHourly(r) == InLower("hour", r.uom)

\* monthly_from_retail, in cents: round(price * HOURS_PER_MONTH, 2) for an
\* hourly unit, round(price, 2) otherwise
monthly_from_retail(r) ==
    IF IsHourly(r)
    THEN RoundHalfEven(r.price * HOURS_PER_MONTH, 10)
    ELSE RoundHalfEven(r.price, 10)

\* `hourly = [x for x in items if "hour" in ...]; pool = hourly or items`
MutHourlyOrAll(items) == items

HourlyOrAll(items) ==
    LET hourly == SelectSeq(items, IsHourly)
    IN  IF Len(hourly) > 0 THEN hourly ELSE items

\* `if best is None or (m and m < best): best = m`
MutBestStep(best, m) ==
    IF (~best.some) \/ (m # 0 /\ m > best.v) THEN Some(m) ELSE best

BestStep(best, m) ==
    IF (~best.some) \/ (m # 0 /\ m < best.v) THEN Some(m) ELSE best

\* `for it in pool: m = monthly_from_retail(it); ...`
RECURSIVE FoldBest(_, _)
FoldBest(best, pool) ==
    IF Len(pool) = 0 THEN best
    ELSE FoldBest(BestStep(best, monthly_from_retail(Head(pool))), Tail(pool))

\* what a resolver hands back: raised (an exception left it), val (None or
\* the price), calls (catalog requests issued), cache (the cache afterwards)
Outcome(raised, val, calls, c) ==
    [raised |-> raised, val |-> val, calls |-> calls, cache |-> c]

\* the common frame of the single-price resolvers: cache hit, else the
\* search (which raises when the catalog request fails), else cache_put
Resolve(key, best, calls, c, t, fault) ==
    LET hit == cache_get(c, key, t)
    IN  IF hit.some THEN Outcome(FALSE, hit, 0, c)
        ELSE IF fault /\ calls > 0 THEN Outcome(TRUE, None, 1, c)
        ELSE IF best.some THEN Outcome(FALSE, best, calls, cache_put(c, key, best.v, t))
        ELSE Outcome(FALSE, None, calls, c)

(***************************************************************************)
(* azure_price_for_app_service_sku                                         *)
(***************************************************************************)
service_candidates ==
    <<"App Service", "App Service Linux", "Azure App Service",
      "App Service Plans", "Azure App Service Plans">>

\* the filter chains in issue order: for reg, for svc: flt, then alt
app_service_chains(sku, vs) ==
    Flatten([i \in 1..Len(vs) |->
        [j \in 1..Len(service_candidates) |->
            << Filter(service_candidates[j], "", sku, "", "", vs[i]),
               Filter("", "App Service", sku, "", "", vs[i]) >>]])

app_service_pools(sku, vs, cat) ==
    LET chains == app_service_chains(sku, vs)
    IN  [i \in 1..Len(chains) |-> HourlyOrAll(ChainItems(cat, chains[i], 60))]

azure_price_for_app_service_sku(sku, region, vs, cat, c, t, fault) ==
    Resolve(<<"az.appservice", region, sku>>,
            FoldBest(None, Flatten(app_service_pools(sku, vs, cat))),
            SumCalls(cat, app_service_chains(sku, vs), 60), c, t, fault)

(***************************************************************************)
(* azure_price_for_vm_size                                                 *)
(***************************************************************************)
\* [size, size.replace("_", " "), size.replace("v", " v")]
vm_candidates(size) ==
    CASE size = "D2_v3" -> <<"D2_v3", "D2 v3", "D2_ v3">>
      [] OTHER -> <<size, size, size>>

vm_chains(size, vs) ==
    Flatten([i \in 1..Len(vs) |->
        [j \in 1..3 |->
            << Filter("Virtual Machines", "", vm_candidates(size)[j], "", "", vs[i]) >>]])

vm_pools(size, vs, cat) ==
    LET chains == vm_chains(size, vs)
    IN  [i \in 1..Len(chains) |-> HourlyOrAll(ChainItems(cat, chains[i], 80))]

azure_price_for_vm_size(size, region, vs, cat, c, t, fault) ==
    Resolve(<<"az.vm", region, size>>,
            FoldBest(None, Flatten(vm_pools(size, vs, cat))),
            SumCalls(cat, vm_chains(size, vs), 80), c, t, fault)

(***************************************************************************)
(* azure_price_for_sql                                                     *)
(***************************************************************************)
DEFAULT_SQL_COMPUTE_ONLY == TRUE

bad_words == {"backup", "storage", "io", "data processed", "per gb", "gb-month"}

good_words == {"dtu", "vcore", "compute"}

is_compute_meter(r, sku) ==
    IF \E b \in bad_words : InLower(b, r.meter) THEN FALSE
    ELSE (\E g \in good_words : InLower(g, r.meter)) \/ InLower(Lower(sku), r.meter)

sql_chains(sku, vs) ==
    [i \in 1..Len(vs) |->
        << Filter("SQL Database", "", sku, "", "", vs[i]),
           Filter("", "SQL Database", sku, "", "", vs[i]),
           Filter("SQL Database", "", "", "", sku, vs[i]) >>]

sql_pool(items, sku) ==
    IF DEFAULT_SQL_COMPUTE_ONLY
    THEN SelectSeq(HourlyOrAll(items), LAMBDA r : is_compute_meter(r, sku))
    ELSE HourlyOrAll(items)

sql_pools(sku, vs, cat) ==
    LET chains == sql_chains(sku, vs)
    IN  [i \in 1..Len(chains) |-> sql_pool(ChainItems(cat, chains[i], 200), sku)]

azure_price_for_sql(sku, region, vs, cat, c, t, fault) ==
    Resolve(<<"az.sql", region, sku>>,
            FoldBest(None, Flatten(sql_pools(sku, vs, cat))),
            SumCalls(cat, sql_chains(sku, vs), 200), c, t, fault)

(***************************************************************************)
(* azure_price_for_storage_lrs_per_gb, azure_price_for_redis,              *)
(* azure_price_for_log_analytics                                           *)
(***************************************************************************)
storage_chains(vs) ==
    [i \in 1..Len(vs) |-> << Filter("Storage", "", "", "LRS", "", vs[i]) >>]

storage_pools(vs, cat) ==
    LET chains == storage_chains(vs)
    IN  [i \in 1..Len(chains) |-> ChainItems(cat, chains[i], 80)]

azure_price_for_storage_lrs_per_gb(region, vs, cat, c, t, fault) ==
    Resolve(<<"az.storage.lrs", region, "">>,
            FoldBest(None, Flatten(storage_pools(vs, cat))),
            SumCalls(cat, storage_chains(vs), 80), c, t, fault)

redis_chains(sku, vs) ==
    [i \in 1..Len(vs) |-> << Filter("Azure Cache for Redis", "", sku, "", "", vs[i]) >>]

redis_pools(sku, vs, cat) ==
    LET chains == redis_chains(sku, vs)
    IN  [i \in 1..Len(chains) |-> ChainItems(cat, chains[i], 60)]

azure_price_for_redis(sku, region, vs, cat, c, t, fault) ==
    Resolve(<<"az.redis", region, sku>>,
            FoldBest(None, Flatten(redis_pools(sku, vs, cat))),
            SumCalls(cat, redis_chains(sku, vs), 60), c, t, fault)

log_analytics_chains(vs) ==
    [i \in 1..Len(vs) |-> << Filter("Log Analytics", "", "", "", "", vs[i]) >>]

log_analytics_pools(vs, cat) ==
    LET chains == log_analytics_chains(vs)
    IN  [i \in 1..Len(chains) |-> ChainItems(cat, chains[i], 60)]

azure_price_for_log_analytics(region, vs, cat, c, t, fault) ==
    Resolve(<<"az.loganalytics", region, "">>,
            FoldBest(None, Flatten(log_analytics_pools(vs, cat))),
            SumCalls(cat, log_analytics_chains(vs), 60), c, t, fault)

(***************************************************************************)
(* azure_price_for_lb_components                                           *)
(***************************************************************************)
is_rule_meter(r) == InLower("rule", r.meter) /\ InLower("hour", r.uom)

is_data_meter(r) ==
    /\ InLower("data", r.meter) \/ InLower("processed", r.meter) \/ InLower("data path", r.meter)
    /\ InLower("gb", r.uom)

\* the two loops over one query's records: rule meters among the hourly
\* records, data meters among all records
lb_scan(st, items) ==
    [x |-> FoldBest(st.x, SelectSeq(SelectSeq(items, IsHourly), is_rule_meter)),
     y |-> FoldBest(st.y, SelectSeq(items, is_data_meter))]

\* the two-component searches share this loop: for each region variant the
\* main query, then the alternative query while a component is missing;
\* yields the components found and the number of requests issued
RECURSIVE components_loop(_, _, _, _, _, _, _)
components_loop(st, n, vs, cat, scan(_, _), svc, prod) ==
    IF Len(vs) = 0 THEN [st |-> st, calls |-> n]
    ELSE LET st1 == scan(st, Fetch(cat, Filter(svc, "", "", "", "", Head(vs)), 200))
             again == (~st1.x.some) \/ (~st1.y.some)
             st2 == IF again
                    THEN scan(st1, Fetch(cat, Filter("", prod, "", "", "", Head(vs)), 200))
                    ELSE st1
         IN  components_loop(st2, n + (IF again THEN 2 ELSE 1), Tail(vs), cat, scan, svc, prod)

\* the common frame of the two-component resolvers: `if cached: return
\* cached`, the search, None when neither component was found, else
\* {first: round(x or 0.0), second: round(y or 0.0)} stored and returned
ResolveComponents(key, found, c, t, fault) ==
    LET hit == cache_get(c, key, t)
        comps == [x |-> IF found.st.x.some THEN found.st.x.v ELSE 0,
                  y |-> IF found.st.y.some THEN found.st.y.v ELSE 0]
    IN  IF hit.some THEN Outcome(FALSE, hit, 0, c)
        ELSE IF fault /\ found.calls > 0 THEN Outcome(TRUE, None, 1, c)
        ELSE IF (~found.st.x.some) /\ (~found.st.y.some)
        THEN Outcome(FALSE, None, found.calls, c)
        ELSE Outcome(FALSE, Some(comps), found.calls, cache_put(c, key, comps, t))

\* x: rule_hour_monthly, y: data_gb_monthly
azure_price_for_lb_components(region, vs, cat, c, t, fault) ==
    ResolveComponents(<<"az.lb.standard.components", region, "">>,
        components_loop([x |-> None, y |-> None], 0, vs, cat, lb_scan,
                        "Load Balancer", "Load Balancer"),
        c, t, fault)

(***************************************************************************)
(* azure_price_for_appgw_wafv2_components                                  *)
(***************************************************************************)
is_base(r) ==
    IF InLower("gb", r.uom) THEN FALSE
    ELSE /\ InLower("gateway", r.meter) \/ InLower("waf v2", r.meter)
            \/ InLower("app gateway", r.meter)
         /\ ~InLower("capacity", r.meter)

is_cu(r) == InLower("capacity unit", r.meter) /\ InLower("hour", r.uom)

\* the loop over one query's hourly records: `if is_base(it) ... elif is_cu(it)`
appgw_scan(st, items) ==
    LET hourly == SelectSeq(items, IsHourly)
    IN  [x |-> FoldBest(st.x, SelectSeq(hourly, is_base)),
         y |-> FoldBest(st.y, SelectSeq(hourly, LAMBDA r : (~is_base(r)) /\ is_cu(r)))]

\* x: base_monthly, y: capacity_unit_monthly
azure_price_for_appgw_wafv2_components(region, vs, cat, c, t, fault) ==
    ResolveComponents(<<"az.appgw.wafv2.components", region, "">>,
        components_loop([x |-> None, y |-> None], 0, vs, cat, appgw_scan,
                        "Application Gateway", "Application Gateway"),
        c, t, fault)

(***************************************************************************)
(* One resolver call against a catalog                                     *)
(***************************************************************************)
\* bound: the number of records of a catalog
MaxCatalog == 2

\* records the catalog may hold for the region "uksouth" (prices in mills)
CatalogRecords == {
    Rec("Azure App Service", "Azure App Service Standard Plan", "S1", "uksouth",
        "S1 App", "1 Hour", 100),
    Rec("Azure App Service", "Azure App Service Standard Plan", "S1", "uksouth",
        "S1 App", "1/Month", 9000),
    Rec("App Service Plans", "Azure App Service Standard Plan", "S1", "uksouth",
        "S1 App", "1/Month", 5000),
    Rec("Functions", "Azure App Service Standard Plan", "S1", "Uksouth",
        "S1 App", "1 Hour", 80),
    Rec("Virtual Machines", "Virtual Machines BS Series", "B2s", "uksouth",
        "B2s", "1 Hour", 50),
    Rec("Virtual Machines", "Virtual Machines BS Series", "B2s", "Uksouth",
        "B2s", "1/Month", 20000),
    Rec("Virtual Machines", "Virtual Machines BS Series", "B2s", "uksouth",
        "B2s", "1/Month", 4),
    Rec("SQL Database", "SQL Database Single Standard", "S0", "uksouth",
        "S0 DTUs", "1/Day", 480),
    Rec("SQL Database", "SQL Database Single Standard", "S0", "Uksouth",
        "vCore", "1 Hour", 700),
    Rec("SQL Database", "SQL Database Single Standard", "S0", "uksouth",
        "Backup Storage", "1 GB/Month", 200),
    Rec("Storage", "Blob Storage", "Hot LRS", "uksouth",
        "LRS Data Stored", "1 GB/Month", 18),
    Rec("Storage", "Blob Storage", "Standard LRS", "uksouth",
        "LRS Write Operations", "10K", 4),
    Rec("Azure Cache for Redis", "Azure Cache for Redis", "C1", "uksouth",
        "C1 Cache", "1 Hour", 55),
    Rec("Azure Cache for Redis", "Azure Cache for Redis", "C1", "Uksouth",
        "C1 Cache", "1/Month", 3),
    Rec("Log Analytics", "Log Analytics", "Pay-as-you-go", "uksouth",
        "Data Ingestion", "1 GB", 2300),
    Rec("Load Balancer", "Load Balancer", "Standard", "uksouth",
        "Standard Overage LB Rules", "1 Hour", 10),
    Rec("Load Balancer", "Load Balancer", "Standard", "uksouth",
        "Standard Data Processed", "1 GB", 6),
    Rec("Application Gateway", "Application Gateway WAF v2", "WAF_v2", "uksouth",
        "Standard Gateway", "1 Hour", 443),
    Rec("Application Gateway", "Application Gateway WAF v2", "WAF_v2", "uksouth",
        "Standard Capacity Units", "1 Hour", 14) }

\* sequences of at most n distinct elements of S
SeqsNoRepeat(S, n) ==
    UNION {{s \in [1..k -> S] : \A i, j \in 1..k : s[i] = s[j] => i = j} : k \in 0..n}

\* every order in which the catalog could return the records of cat
Reorderings(cat) ==
    {[i \in 1..Len(cat) |-> cat[p[i]]] : p \in Orders(1..Len(cat))}

\* the iteration orders of the variant sets of the model's regions
VariantOrderings ==
    {f \in [{"uksouth", "eastus"} -> VariantOrders("uksouth") \cup VariantOrders("eastus")] :
        \A r \in {"uksouth", "eastus"} : f[r] \in VariantOrders(r)}

\* the services with a resolver, with the SKU normalize_to_items gives them
ResolverServices ==
    {"app_service", "vm", "azure_sql", "storage", "redis", "monitor", "lb", "app_gateway"}

SkuOf(service) ==
    CASE service = "app_service" -> "S1"
      [] service = "azure_sql" -> "S0"
      [] service = "vm" -> "B2s"
      [] service = "storage" -> "LRS"
      [] service = "app_gateway" -> "WAF_v2"
      [] service = "lb" -> "Standard"
      [] service = "redis" -> "C1"
      [] service = "aks" -> "standard"
      [] service = "monitor" -> "LogAnalytics"
      [] OTHER -> ""

\* the cache key of the resolver of a service
resolver_key(service, sku, region) ==
    CASE service = "app_service" -> <<"az.appservice", region, sku>>
      [] service = "vm" -> <<"az.vm", region, sku>>
      [] service = "azure_sql" -> <<"az.sql", region, sku>>
      [] service = "storage" -> <<"az.storage.lrs", region, "">>
      [] service = "lb" -> <<"az.lb.standard.components", region, "">>
      [] service = "app_gateway" -> <<"az.appgw.wafv2.components", region, "">>
      [] service = "redis" -> <<"az.redis", region, sku>>
      [] service = "monitor" -> <<"az.loganalytics", region, "">>

\* the resolver price_items calls for a service
resolver(service, sku, region, vs, cat, c, t, fault) ==
    CASE service = "app_service" ->
            azure_price_for_app_service_sku(sku, region, vs, cat, c, t, fault)
      [] service = "vm" -> azure_price_for_vm_size(sku, region, vs, cat, c, t, fault)
      [] service = "azure_sql" -> azure_price_for_sql(sku, region, vs, cat, c, t, fault)
      [] service = "storage" ->
            azure_price_for_storage_lrs_per_gb(region, vs, cat, c, t, fault)
      [] service = "lb" -> azure_price_for_lb_components(region, vs, cat, c, t, fault)
      [] service = "app_gateway" ->
            azure_price_for_appgw_wafv2_components(region, vs, cat, c, t, fault)
      [] service = "redis" -> azure_price_for_redis(sku, region, vs, cat, c, t, fault)
      [] service = "monitor" -> azure_price_for_log_analytics(region, vs, cat, c, t, fault)

\* the records the resolver's queries return, in issue order
matched_records(service, sku, vs, cat) ==
    LET of(chains, lim) == Flatten([i \in 1..Len(chains) |-> ChainItems(cat, chains[i], lim)])
    IN  CASE service = "app_service" -> of(app_service_chains(sku, vs), 60)
          [] service = "vm" -> of(vm_chains(sku, vs), 80)
          [] service = "azure_sql" -> of(sql_chains(sku, vs), 200)
          [] service = "storage" -> of(storage_chains(vs), 80)
          [] service = "redis" -> of(redis_chains(sku, vs), 60)
          [] service = "monitor" -> of(log_analytics_chains(vs), 60)

\* the records among them the resolver takes its minimum over
candidate_records(service, sku, vs, cat) ==
    CASE service = "app_service" -> Flatten(app_service_pools(sku, vs, cat))
      [] service = "vm" -> Flatten(vm_pools(sku, vs, cat))
      [] service = "azure_sql" -> Flatten(sql_pools(sku, vs, cat))
      [] service = "storage" -> Flatten(storage_pools(vs, cat))
      [] service = "redis" -> Flatten(redis_pools(sku, vs, cat))
      [] service = "monitor" -> Flatten(log_analytics_pools(vs, cat))

\* bound: the number of resolver calls a behaviour makes
MaxCalls == 3

NoRequest == [service |-> "", sku |-> "", region |-> "", fault |-> FALSE]

NoOutcome == Outcome(FALSE, None, 0, EmptyCache)

EnvIdle ==
    /\ catalog = << >>
    /\ vorder = [r \in {"uksouth", "eastus"} |-> << >>]
    /\ cache = EmptyCache
    /\ now = 0

ResolverIdle ==
    /\ rpc = "idle"
    /\ rq = NoRequest
    /\ rres = NoOutcome
    /\ log = << >>

\* a call azure_price_for_<service>(sku, region); fault: its catalog
\* request fails (requests.get or r.json() raises)
ResolverCall(service, region, fault) ==
    /\ rpc = "idle"
    /\ Len(log) < MaxCalls
    /\ rpc' = "done"
    /\ rq' = [service |-> service, sku |-> SkuOf(service), region |-> region,
              fault |-> fault]
    /\ rres' = resolver(service, SkuOf(service), region, vorder[region], catalog,
                        cache, now, fault)
    /\ cache' = rres'.cache
    /\ log' = Append(log, [key |-> resolver_key(service, SkuOf(service), region),
                            at |-> now, val |-> rres'.val, calls |-> rres'.calls,
                            raised |-> rres'.raised])
    /\ UNCHANGED <<catalog, vorder, now>>
    /\ UNCHANGED <<fetchVars, pricingVars, normVars, sanVars>>

ResolverNext ==
    \E service \in ResolverServices, fault \in BOOLEAN :
        ResolverCall(service, "uksouth", fault)

(***************************************************************************)
(* A process that keeps calling resolvers while time passes                *)
(***************************************************************************)
\* bound: the clock stops advancing here
MaxClock == 7200

\* the steps by which the clock advances between two calls: just under,
\* exactly and just over the time-to-live of an entry
ClockSteps == {TTL - 1, TTL, TTL + 1}

\* the catalogs the process faces over time: no record, then two price
\* lists that differ in every price
CacheCatalogs ==
    { << >>,
      << Rec("Virtual Machines", "Virtual Machines BS Series", "B2s", "uksouth",
             "B2s", "1 Hour", 50),
         Rec("Load Balancer", "Load Balancer", "Standard", "uksouth",
             "Standard Overage LB Rules", "1 Hour", 10) >>,
      << Rec("Virtual Machines", "Virtual Machines BS Series", "B2s", "uksouth",
             "B2s", "1 Hour", 60),
         Rec("Load Balancer", "Load Balancer", "Standard", "uksouth",
             "Standard Overage LB Rules", "1 Hour", 20) >> }

\* the resolvers the process calls: a single-price and a two-component one
CacheServices == {"vm", "lb"}

\* the resolver has returned (or raised) and the process goes on
ResolverReturn ==
    /\ rpc = "done"
    /\ rpc' = "idle"
    /\ UNCHANGED <<rq, rres, log>>
    /\ UNCHANGED <<fetchVars, envVars, pricingVars, normVars, sanVars>>

\* time.time() moves on between two calls
Tick(d) ==
    /\ rpc = "idle"
    /\ now + d <= MaxClock
    /\ now' = now + d
    /\ UNCHANGED <<catalog, vorder, cache>>
    /\ UNCHANGED <<fetchVars, resolverVars, pricingVars, normVars, sanVars>>

\* the Retail Prices catalog publishes another price list
CatalogUpdate(cat) ==
    /\ rpc = "idle"
    /\ cat # catalog
    /\ catalog' = cat
    /\ UNCHANGED <<vorder, cache, now>>
    /\ UNCHANGED <<fetchVars, resolverVars, pricingVars, normVars, sanVars>>

CacheNext ==
    \/ \E service \in CacheServices, fault \in BOOLEAN :
          ResolverCall(service, "uksouth", fault)
    \/ ResolverReturn
    \/ \E d \in ClockSteps : Tick(d)
    \/ \E cat \in CacheCatalogs : CatalogUpdate(cat)

(***************************************************************************)
(* price_items                                                             *)
(***************************************************************************)
USE_LIVE_AZURE_PRICES == TRUE

DEFAULT_APPGW_CAPACITY_UNITS == 1

DEFAULT_LB_RULES == 2

DEFAULT_LB_DATA_GB == 100

\* the size used for storage when the item gives none
DEFAULT_STORAGE_GB == 100

\* bound: the number of items of one call
MaxItems == 2

\* an item; "" or None stand for a key the dict does not have
Item(cloud, service, sku, region, qty, hours, size_gb, rules, data_gb, capacity_units) ==
    [cloud |-> cloud, service |-> service, sku |-> sku, region |-> region,
     qty |-> qty, hours |-> hours, size_gb |-> size_gb, rules |-> rules,
     data_gb |-> data_gb, capacity_units |-> capacity_units]

\* Python `x or d` on an optional number: d when x is missing, None or 0
PyOr(x, d) == IF x.some /\ x.v # 0 THEN x.v ELSE d

\* Python truth of an optional number
Truthy(x) == x.some /\ x.v # 0

\* qty = int(it.get("qty", 1) or 1)
item_qty(it) == PyOr(it.qty, 1)

\* region = it.get("region") or DEFAULT_REGION
item_region(it) == IF it.region # "" THEN it.region ELSE DEFAULT_REGION

\* size_gb = float(it.get("size_gb", 0) or 0)
item_size_gb(it) == PyOr(it.size_gb, 0)

\* hours = float(it.get("hours", HOURS_PER_MONTH) or HOURS_PER_MONTH)
item_hours(it) == PyOr(it.hours, HOURS_PER_MONTH)

\* int(it.get("capacity_units") or it.get("size_gb") or DEFAULT_APPGW_CAPACITY_UNITS)
item_capacity_units(it) ==
    IF Truthy(it.capacity_units) THEN it.capacity_units.v
    ELSE PyOr(it.size_gb, DEFAULT_APPGW_CAPACITY_UNITS)

\* a diagnostic note; item is the position of the item it is about
Note(kind, i, it, n) ==
    [kind |-> kind, item |-> i, cloud |-> it.cloud, service |-> it.service,
     sku |-> it.sku, region |-> item_region(it), n |-> n]

\* the branches of the try block after the resolver of the item's service
\* returned call: the unit price (cents, or None), the notes appended and
\* the cache afterwards
priced(i, it, c, call) ==
    IF call.raised
    THEN [unit |-> None, notes |-> << Note("lookup_failed", i, it, 0) >>, cache |-> c]
    ELSE IF ~call.val.some
    THEN [unit |-> None, notes |-> << >>, cache |-> call.cache]
    ELSE IF it.service = "storage"
    THEN [unit |-> Some(call.val.v * (IF item_size_gb(it) > 0 THEN item_size_gb(it)
                                      ELSE DEFAULT_STORAGE_GB)),
          notes |-> << >>, cache |-> call.cache]
    ELSE IF it.service = "lb"
    THEN [unit |-> Some(PyOr(it.rules, DEFAULT_LB_RULES) * call.val.v.x
                        + PyOr(it.data_gb, DEFAULT_LB_DATA_GB) * call.val.v.y),
          notes |-> (IF ~Truthy(it.rules)
                     THEN << Note("lb_rules_defaulted", i, it, DEFAULT_LB_RULES) >>
                     ELSE << >>)
                    \o (IF ~Truthy(it.data_gb)
                        THEN << Note("lb_data_defaulted", i, it, DEFAULT_LB_DATA_GB) >>
                        ELSE << >>),
          cache |-> call.cache]
    ELSE IF it.service = "app_gateway"
    THEN [unit |-> Some(call.val.v.x + item_capacity_units(it) * call.val.v.y),
          notes |-> IF (~Truthy(it.capacity_units)) /\ (~Truthy(it.size_gb))
                    THEN << Note("appgw_capacity_units_defaulted", i, it,
                                 item_capacity_units(it)) >>
                    ELSE << >>,
          cache |-> call.cache]
    ELSE [unit |-> call.val, notes |-> << >>, cache |-> call.cache]

\* the try block of item i
lookup(i, it, vs, cat, c, t, fault) ==
    IF ~(it.cloud = "azure" /\ USE_LIVE_AZURE_PRICES)
    THEN [unit |-> None, notes |-> << >>, cache |-> c]
    ELSE IF it.service = "aks"
    THEN [unit |-> Some(0), notes |-> << Note("aks_control_plane_free", i, it, 0) >>,
          cache |-> c]
    ELSE IF it.service \notin ResolverServices
    THEN [unit |-> None, notes |-> << >>, cache |-> c]
    ELSE priced(i, it, c,
                resolver(it.service, it.sku, item_region(it), vs, cat, c, t, fault))

\* `if unit_monthly is None: notes.append("No price found ..."); unit_monthly = 0.0`
MutNoPriceNotes(unit, i, it) == << >>

NoPriceNotes(unit, i, it) ==
    IF ~unit.some THEN << Note("no_price", i, it, 0) >> ELSE << >>

\* monthly = unit; scaled by hours / HOURS_PER_MONTH when hours is set,
\* differs from HOURS_PER_MONTH and the price is positive; then
\* round(monthly * qty, 2), in cents
MutMonthly(unit, hours, qty) ==
    IF hours # 0 /\ hours # HOURS_PER_MONTH /\ unit > 0
    THEN RoundHalfEven(unit * hours, HOURS_PER_MONTH * qty)
    ELSE unit \div qty

Monthly(unit, hours, qty) ==
    IF hours # 0 /\ hours # HOURS_PER_MONTH /\ unit > 0
    THEN RoundHalfEven(unit * hours * qty, HOURS_PER_MONTH)
    ELSE unit * qty

\* the out_line of an item
Line(it, unit, monthly) ==
    [cloud |-> it.cloud, service |-> it.service, sku |-> it.sku,
     qty |-> item_qty(it), region |-> item_region(it),
     size_gb |-> IF item_size_gb(it) > 0 THEN Some(item_size_gb(it)) ELSE None,
     hours |-> IF item_hours(it) # 0 /\ item_hours(it) # HOURS_PER_MONTH
               THEN Some(item_hours(it)) ELSE None,
     unit_monthly |-> unit, monthly |-> monthly,
     capacity_units |-> IF it.service = "app_gateway"
                        THEN Some(item_capacity_units(it)) ELSE None,
     rules |-> IF it.service = "lb" THEN Some(PyOr(it.rules, DEFAULT_LB_RULES)) ELSE None,
     data_gb |-> IF it.service = "lb" THEN Some(PyOr(it.data_gb, DEFAULT_LB_DATA_GB))
                 ELSE None]

\* the unit price counted for a line: 0.0 when no price was found
unit_of(got) == IF got.unit.some THEN got.unit.v ELSE 0

\* the body of `for it in items` for item i, whose try block gave got: acc
\* carries out_items, notes, total and the cache, and records in seen the
\* cache each item met
price_step(acc, i, it, got) ==
    [items |-> Append(acc.items,
                      Line(it, unit_of(got),
                           Monthly(unit_of(got), item_hours(it), item_qty(it)))),
     notes |-> acc.notes \o got.notes \o NoPriceNotes(got.unit, i, it),
     total |-> acc.total + Monthly(unit_of(got), item_hours(it), item_qty(it)),
     cache |-> got.cache,
     seen |-> Append(acc.seen, acc.cache)]

RECURSIVE price_loop(_, _, _, _, _, _, _)
price_loop(i, its, flts, vo, cat, t, acc) ==
    IF i > Len(its) THEN acc
    ELSE price_loop(i + 1, its, flts, vo, cat, t,
                    price_step(acc, i, its[i],
                               lookup(i, its[i], vo[item_region(its[i])], cat, acc.cache,
                                      t, flts[i])))

\* price_items(items): the estimate and the cache afterwards
price_items(its, flts, vo, cat, c, t) ==
    price_loop(1, its, flts, vo, cat, t,
               [items |-> << >>, notes |-> << >>, total |-> 0, cache |-> c,
                seen |-> << >>])

\* the items the model prices: VMs with several qty and hours and one item
\* of other services
PricedItems ==
    { Item("azure", "vm", "B2s", "uksouth", q, h, None, None, None, None) :
        q \in {None}, h \in {None, Some(0), Some(1)} }
    \cup { Item("azure", "vm", "B2s", "uksouth", q, None, None, None, None, None) :
        q \in {Some(0), Some(3)} }
    \cup { Item("azure", "storage", "LRS", "uksouth", None, None, Some(50), None, None, None),
           Item("azure", "lb", "Standard", "uksouth", None, None, None, None, None, None),
           Item("azure", "app_gateway", "WAF_v2", "uksouth", None, None, None, None, None,
                Some(2)),
           Item("azure", "aks", "standard", "uksouth", None, None, None, None, None, None),
           Item("aws", "vm", "t3.small", "", Some(1), None, None, None, None, None) }

\* sequences of 1..n elements of S
SeqsUpTo(S, n) == UNION {[1..k -> S] : k \in 1..n}

\* the catalogs the pricing model faces: no record; VM and storage
\* records; these and the load-balancer and gateway meters
PriceCatalogs ==
    LET vm == Rec("Virtual Machines", "Virtual Machines BS Series", "B2s", "uksouth",
                  "B2s", "1 Hour", 50)
        st == Rec("Storage", "Blob Storage", "Hot LRS", "uksouth",
                  "LRS Data Stored", "1 GB/Month", 18)
        lbr == Rec("Load Balancer", "Load Balancer", "Standard", "uksouth",
                   "Standard Overage LB Rules", "1 Hour", 10)
        lbd == Rec("Load Balancer", "Load Balancer", "Standard", "uksouth",
                   "Standard Data Processed", "1 GB", 6)
        gwb == Rec("Application Gateway", "Application Gateway WAF v2", "WAF_v2",
                   "uksouth", "Standard Gateway", "1 Hour", 443)
        gwc == Rec("Application Gateway", "Application Gateway WAF v2", "WAF_v2",
                   "uksouth", "Standard Capacity Units", "1 Hour", 14)
    IN  { << >>, <<vm, st>>, <<vm, st, lbr, lbd, gwb, gwc>> }

NoResp == [items |-> << >>, notes |-> << >>, total |-> 0]

PricingIdle ==
    /\ req = << >>
    /\ faults = << >>
    /\ resp = NoResp
    /\ seen = << >>

\* one call of price_items; flts[i]: the catalog request for item i fails
PriceItems(its, flts) ==
    /\ req = << >>
    /\ req' = its
    /\ faults' = flts
    /\ \E got \in {price_items(its, flts, vorder, catalog, cache, now)} :
          /\ resp' = [items |-> got.items, notes |-> got.notes, total |-> got.total]
          /\ cache' = got.cache
          /\ seen' = got.seen
    /\ UNCHANGED <<catalog, vorder, now>>
    /\ UNCHANGED <<fetchVars, resolverVars, normVars, sanVars>>

\* the estimate is handed to the caller; the request's data is dropped,
\* the cache stays (requests are served one at a time)
Return ==
    /\ req # << >>
    /\ req' = << >>
    /\ faults' = << >>
    /\ resp' = NoResp
    /\ seen' = << >>
    /\ UNCHANGED envVars
    /\ UNCHANGED <<fetchVars, resolverVars, normVars, sanVars>>

Next ==
    \/ \E its \in SeqsUpTo(PricedItems, MaxItems) :
          \E flts \in [1..Len(its) -> BOOLEAN] : PriceItems(its, flts)
    \/ Return

(***************************************************************************)
(* price_items over load-balancer and gateway items                        *)
(***************************************************************************)
\* the items of the multi-component services: each attribute absent, given
\* as 0 and given as a positive number
ComponentItems ==
    { Item("azure", "lb", "Standard", "uksouth", None, None, None, r, d, None) :
        r \in {None, Some(0), Some(3)}, d \in {None, Some(0), Some(50)} }
    \cup { Item("azure", "app_gateway", "WAF_v2", "uksouth", None, None, s, None, None, cu) :
        s \in {None, Some(5)}, cu \in {None, Some(0), Some(2)} }

ComponentNext ==
    \/ \E its \in SeqsUpTo(ComponentItems, MaxItems) :
          \E flts \in [1..Len(its) -> BOOLEAN] : PriceItems(its, flts)
    \/ Return

(***************************************************************************)
(* Item normalization: normalize_to_items                                  *)
(*                                                                         *)
(* A text is a sequence of words, standing for the words joined by single  *)
(* spaces; every word is made of word characters only, so a \b of the      *)
(* patterns falls exactly between two words.  The scan buffer is the       *)
(* sequence of the lower-cased words of the three texts with a "\n"        *)
(* element between two texts.                                              *)
(***************************************************************************)
MaxWords == 3

\* the words of the free text
AskWords ==
    {"app", "service", "frontend", "backend", "mssql", "50", "gb", "VM", "vm", "vms",
     "vmss", "gateway", "gateways", "gw", "lb"}

\* the diagram sources and the infrastructure sources of the model
Diagrams ==
    { << >>, <<"LB">>, <<"Application", "gateway", "2", "cu">>,
      <<"virtual", "machine", "vm", "scale", "set">>,
      <<"web", "app", "redis", "aks", "monitor">> }

TfSources ==
    { << >>, <<"azurerm_storage_account", "blob", "storage">>,
      <<"kubernetes", "service", "log", "analytics">>,
      <<"load", "balancer", "2", "rules", "50", "gb", "processed">> }

\* the region argument: "" stands for None
NormRegions == {"", "westeurope"}

\* <<word, needle>>: needle occurs in the word, starts it, ends it
WordContains == {
    <<"aks", "aks">>, <<"backend", "back">>, <<"backend", "backend">>, <<"frontend", "front">>,
    <<"redis", "redis">>, <<"monitor", "monitor">> }

WordStarts == {
    <<"analytics", "analytics">>, <<"azurerm_storage_account", "azurerm_storage">>,
    <<"frontend", "front">>, <<"gb", "gb">>, <<"processed", "processed">>, <<"rules", "rules">>,
    <<"service", "service">> }

WordEnds == {
    <<"application", "application">>, <<"kubernetes", "kubernetes">>, <<"log", "log">> }

Within(w, needle) == <<w, needle>> \in WordContains

StartsWith(w, needle) == <<w, needle>> \in WordStarts

EndsWith(w, needle) == <<w, needle>> \in WordEnds

\* the value of a word matched by (\d+)
NumberOf(w) ==
    CASE w = "2" -> Some(2)
      [] w = "50" -> Some(50)
      [] OTHER -> None

\* blob = f"{ask}\n{diagram}\n{tf}".lower()
Blob(a, d, t) ==
    LET raw == a \o <<"\n">> \o d \o <<"\n">> \o t
    IN  [i \in 1..Len(raw) |-> Lower(raw[i])]

\* the words ws stand at position i of b, one space apart
Phrase(b, i, ws) ==
    /\ i + Len(ws) - 1 <= Len(b)
    /\ \A k \in 1..Len(ws) : b[i + k - 1] = ws[k]

\* re.search(r"\bw1 w2\b", blob)
HasPhrase(b, ws) == \E i \in 1..Len(b) : Phrase(b, i, ws)

\* "needle" in blob, for a needle without a space
HasSubstring(b, needle) == \E i \in 1..Len(b) : Within(b[i], needle)

\* "first second" in blob
HasSubstring2(b, first, second) ==
    \E i \in 1..(Len(b) - 1) : EndsWith(b[i], first) /\ StartsWith(b[i + 1], second)

\* positions i..j of b are on one line ('.' does not match a newline)
SameLine(b, i, j) == \A k \in i..j : b[k] # "\n"

\* re.search(r"\bfront.*back|backend.*front", blob); no word of the model
\* holds both halves of a pattern
FrontAndBack(b) ==
    \E i, j \in 1..Len(b) :
        /\ i < j /\ SameLine(b, i, j)
        /\ \/ StartsWith(b[i], "front") /\ Within(b[j], "back")
           \/ Within(b[i], "backend") /\ Within(b[j], "front")

\* the first word after position i (\s* runs over spaces and newlines), 0 if none
NextWord(b, i) ==
    LET S == {j \in (i + 1)..Len(b) : b[j] # "\n"}
    IN  IF S = {} THEN 0 ELSE CHOOSE j \in S : \A k \in S : j <= k

\* group(1) of re.search for a pattern "(\d+)\s*..." whose tail matches at
\* the positions At: the leftmost match
FirstNumber(b, At(_, _)) ==
    LET S == {i \in 1..Len(b) : NumberOf(b[i]).some /\ At(b, i)}
    IN  IF S = {} THEN None
        ELSE NumberOf(b[CHOOSE i \in S : \A k \in S : i <= k])

\* r"(\d+)\s*gb"
gb_tail(b, i) ==
    LET j == NextWord(b, i) IN j # 0 /\ StartsWith(b[j], "gb")

\* r"(\d+)\s*(?:capacity\s*units|cu)\b"
cu_tail(b, i) ==
    LET j == NextWord(b, i)
    IN  /\ j # 0
        /\ \/ b[j] = "cu"
           \/ /\ b[j] = "capacity"
              /\ NextWord(b, j) # 0 /\ b[NextWord(b, j)] = "units"

\* r"(\d+)\s*(?:rules|lb\s*rules)"
rules_tail(b, i) ==
    LET j == NextWord(b, i)
    IN  /\ j # 0
        /\ \/ StartsWith(b[j], "rules")
           \/ /\ b[j] = "lb"
              /\ NextWord(b, j) # 0 /\ StartsWith(b[NextWord(b, j)], "rules")

\* r"(\d+)\s*gb\s*(?:data|processed)"
data_tail(b, i) ==
    LET j == NextWord(b, i)
    IN  /\ j # 0 /\ b[j] = "gb"
        /\ NextWord(b, j) # 0
        /\ \/ StartsWith(b[NextWord(b, j)], "data")
           \/ StartsWith(b[NextWord(b, j)], "processed")

\* d = {...}; "qty": max(1, int(qty)); the optional attributes are set by
\* the detectors
add(cloud, service, sku, qty, region, size_gb, rules, data_gb, capacity_units) ==
    Item(cloud, service, sku, region, Some(Max(1, qty)), None, size_gb, rules, data_gb,
         capacity_units)

\* region = region or DEFAULT_REGION
norm_region(region) == IF region # "" THEN region ELSE DEFAULT_REGION

\* the app service detector
app_service_items(b, region) ==
    IF HasPhrase(b, <<"app", "service">>) \/ HasPhrase(b, <<"web", "app">>)
    THEN <<add("azure", "app_service", "S1", IF FrontAndBack(b) THEN 2 ELSE 1, region,
               None, None, None, None)>>
    ELSE << >>

\* the SQL detector, with the size of the first "N gb"
sql_items(b, region) ==
    IF \/ HasPhrase(b, <<"mssql">>) \/ HasPhrase(b, <<"azure", "sql">>)
       \/ HasPhrase(b, <<"sql", "database">>)
    THEN <<add("azure", "azure_sql", "S0", 1, region, FirstNumber(b, gb_tail),
               None, None, None)>>
    ELSE << >>

\* len(re.findall(r"\bvmss\b|\bvm scale set\b|\bvirtual machine\b|\bvm\b", blob)):
\* the scan takes at each position the first alternative that matches and
\* goes on after the match
RECURSIVE vm_hits(_, _)
vm_hits(b, i) ==
    IF i > Len(b) THEN 0
    ELSE IF b[i] = "vmss" THEN 1 + vm_hits(b, i + 1)
    ELSE IF Phrase(b, i, <<"vm", "scale", "set">>) THEN 1 + vm_hits(b, i + 3)
    ELSE IF Phrase(b, i, <<"virtual", "machine">>) THEN 1 + vm_hits(b, i + 2)
    ELSE IF b[i] = "vm" THEN 1 + vm_hits(b, i + 1)
    ELSE vm_hits(b, i + 1)

\* one item per hit, in place of one item for all hits
MutVmItems(b, region) ==
    [k \in 1..vm_hits(b, 1) |->
        add("azure", "vm", "B2s", 1, region, None, None, None, None)]

\* if vm_hits: add("azure", "vm", "B2s", qty=vm_hits)
vm_items(b, region) ==
    IF vm_hits(b, 1) # 0
    THEN <<add("azure", "vm", "B2s", vm_hits(b, 1), region, None, None, None, None)>>
    ELSE << >>

\* the storage detector
storage_items(b, region) ==
    IF \/ HasPhrase(b, <<"storage", "account">>) \/ HasPhrase(b, <<"blob", "storage">>)
       \/ \E i \in 1..Len(b) : StartsWith(b[i], "azurerm_storage")
    THEN <<add("azure", "storage", "LRS", 1, region, Some(100), None, None, None)>>
    ELSE << >>

\* re.search(r"\bapplication gateway\b|\bapp gateway\b|\bapp gw\b", blob)
gateway_keyword(b) ==
    \/ HasPhrase(b, <<"application", "gateway">>)
    \/ HasPhrase(b, <<"app", "gateway">>)
    \/ HasPhrase(b, <<"app", "gw">>)

\* re.search(r"\bload balancer\b|\blb\b", blob)
lb_keyword(b) == HasPhrase(b, <<"load", "balancer">>) \/ HasPhrase(b, <<"lb">>)

gateway_item(b, region) ==
    add("azure", "app_gateway", "WAF_v2", 1, region, None, None, None,
        FirstNumber(b, cu_tail))

lb_item(b, region) ==
    add("azure", "lb", "Standard", 1, region, None, FirstNumber(b, rules_tail),
        FirstNumber(b, data_tail), None)

\* two independent ifs, in place of if / elif
MutGatewayOrLb(b, region) ==
    (IF gateway_keyword(b) THEN <<gateway_item(b, region)>> ELSE << >>)
    \o (IF lb_keyword(b) THEN <<lb_item(b, region)>> ELSE << >>)

\* if <gateway>: ... elif <load balancer>: ...
gateway_or_lb(b, region) ==
    IF gateway_keyword(b) THEN <<gateway_item(b, region)>>
    ELSE IF lb_keyword(b) THEN <<lb_item(b, region)>>
    ELSE << >>

redis_items(b, region) ==
    IF HasSubstring(b, "redis")
    THEN <<add("azure", "redis", "C1", 1, region, None, None, None, None)>>
    ELSE << >>

aks_items(b, region) ==
    IF HasSubstring(b, "aks") \/ HasSubstring2(b, "kubernetes", "service")
    THEN <<add("azure", "aks", "standard", 1, region, None, None, None, None)>>
    ELSE << >>

monitor_items(b, region) ==
    IF \/ HasSubstring2(b, "application", "insights") \/ HasSubstring(b, "monitor")
       \/ HasSubstring2(b, "log", "analytics")
    THEN <<add("azure", "monitor", "LogAnalytics", 1, region, None, None, None, None)>>
    ELSE << >>

\* the items in the order of the detectors
normalize_to_items(a, d, t, region) ==
    LET b == Blob(a, d, t)
        r == norm_region(region)
    IN  app_service_items(b, r) \o sql_items(b, r) \o vm_items(b, r)
        \o storage_items(b, r) \o gateway_or_lb(b, r) \o redis_items(b, r)
        \o aks_items(b, r) \o monitor_items(b, r)

\* one call of normalize_to_items on the texts of the state
Normalize(region) ==
    /\ npc = "idle"
    /\ npc' = "done"
    /\ nitems' = normalize_to_items(ask, diagram, tf, region)
    /\ UNCHANGED <<ask, diagram, tf>>
    /\ UNCHANGED <<fetchVars, envVars, resolverVars, pricingVars, sanVars>>

NormNext == \E region \in NormRegions : Normalize(region)
(***************************************************************************)
(* Mermaid sanitizer: sanitize_mermaid                                     *)
(*                                                                         *)
(* A text is a sequence of one-character strings.                          *)
(***************************************************************************)
\* \s over the characters of the model
IsSpace(c) == c \in {" ", "\n"}

\* [A-Za-z0-9_] over the characters of the model
WordChars ==
    {"A", "B", "C", "D", "G", "N", "a", "b", "c", "d", "e", "g", "h", "l", "n", "o", "p", "r",
     "s", "t", "u", "x", "y", "z"}

IsWord(c) == c \in WordChars

NotNewline(c) == c # "\n"

\* the characters w stand at position p of x
StartsAt(x, p, w) ==
    /\ p >= 1 /\ p + Len(w) - 1 <= Len(x)
    /\ \A k \in 1..Len(w) : x[p + k - 1] = w[k]

HasSeq(x, w) == \E p \in 1..Len(x) : StartsAt(x, p, w)

\* the last position of the longest run of characters of class C that
\* starts at p; p - 1 when the run is empty
RECURSIVE RunEnd(_, _, _)
RunEnd(x, C(_), p) == IF p <= Len(x) /\ C(x[p]) THEN RunEnd(x, C, p + 1) ELSE p - 1

\* ^ and $ under re.MULTILINE: p is the first position of a line; e is the
\* last position of a line
AtLineStart(x, p) == p = 1 \/ x[p - 1] = "\n"

AtLineEnd(x, e) == e = Len(x) \/ x[e + 1] = "\n"

\* the greatest e in lo..hi with $ after it, -1 if none: a greedy \s* gives
\* back characters until $ matches
LineEndIn(x, lo, hi) ==
    LET S == {e \in lo..hi : AtLineEnd(x, e)}
    IN  IF S = {} THEN -1 ELSE CHOOSE e \in S : \A k \in S : k <= e

subgraph_word == <<"s", "u", "b", "g", "r", "a", "p", "h">>

\* the last position matched by \s*;?\s*$ after position d, -1 if none
title_tail(x, d) ==
    LET w == RunEnd(x, IsSpace, d + 1)
        semi == w + 1 <= Len(x) /\ x[w + 1] = ";"
        withSemi == IF semi THEN LineEndIn(x, w + 1, RunEnd(x, IsSpace, w + 2)) ELSE -1
    IN  IF withSemi # -1 THEN withSemi ELSE LineEndIn(x, d, w)

\* [^\[\n"] and [^)]
InTitle(c) == c \notin {"[", "\n", "\""}

NotClose(c) == c # ")"

\* the position of '(' and of ')' when group 1 ends at b
title_open(x, b) == RunEnd(x, IsSpace, b + 1) + 1

title_close(x, b) == RunEnd(x, NotClose, title_open(x, b) + 1) + 1

\* r'^\s*subgraph\s+([^\[\n"]+)\s*\(([^)]+)\)\s*;?\s*$' matches at p with
\* \s+ ending at a and group 1 ending at b
title_matches(x, p, a, b) ==
    LET q == RunEnd(x, IsSpace, p) + 1
    IN  /\ StartsAt(x, q, subgraph_word)
        /\ a >= q + 8 /\ a <= RunEnd(x, IsSpace, q + 8)
        /\ b >= a + 1 /\ b <= RunEnd(x, InTitle, a + 1)
        /\ title_open(x, b) <= Len(x) /\ x[title_open(x, b)] = "("
        /\ title_close(x, b) <= Len(x)
        /\ title_close(x, b) >= title_open(x, b) + 2
        /\ title_tail(x, title_close(x, b)) # -1

\* the match the engine finds at p: both quantifiers are greedy, \s+ first
title_match(x, p) ==
    LET q == RunEnd(x, IsSpace, p) + 1
        S == IF StartsAt(x, q, subgraph_word)
             THEN {ab \in ((q + 8)..Len(x)) \X ((q + 9)..Len(x)) :
                       title_matches(x, p, ab[1], ab[2])}
             ELSE {}
    IN  IF S = {} THEN << >>
        ELSE CHOOSE ab \in S :
                 \A o \in S : o[1] < ab[1] \/ (o[1] = ab[1] /\ o[2] <= ab[2])

\* line 128: every match, left to right, becomes subgraph "\1 (\2)"
RECURSIVE quote_titles(_, _)
quote_titles(x, p) ==
    IF p > Len(x) THEN << >>
    ELSE IF AtLineStart(x, p) /\ title_match(x, p) # << >>
    THEN LET a == title_match(x, p)[1]
             b == title_match(x, p)[2]
         IN  subgraph_word \o <<" ", "\"">> \o SubSeq(x, a + 1, b) \o <<" ", "(">>
             \o SubSeq(x, title_open(x, b) + 1, title_close(x, b) - 1) \o <<")", "\"">>
             \o quote_titles(x, title_tail(x, title_close(x, b)) + 1)
    ELSE <<x[p]>> \o quote_titles(x, p + 1)

\* [^\n;]
InHeader(c) == c \notin {"\n", ";"}

IsSemi(c) == c = ";"

\* the last position matched by ;+\s*$ from the ';' at k, -1 if none
header_end(x, k) ==
    LET m == RunEnd(x, IsSemi, k)
    IN  LineEndIn(x, m, RunEnd(x, IsSpace, m + 1))

\* the position of the first ';' of a subgraph header that starts at p with
\* r'^(?P<hdr>\s*subgraph\b[^\n;]*?);+\s*$', 0 if the pattern does not match
header_semi(x, p) ==
    LET q == RunEnd(x, IsSpace, p) + 1
        k == RunEnd(x, InHeader, q + 8) + 1
    IN  IF /\ StartsAt(x, q, subgraph_word)
           /\ (q + 8 > Len(x) \/ ~IsWord(x[q + 8]))
           /\ k <= Len(x) /\ x[k] = ";"
           /\ header_end(x, k) # -1
        THEN k ELSE 0

\* line 130: every match, left to right, becomes its header
RECURSIVE strip_header_semis(_, _)
strip_header_semis(x, p) ==
    IF p > Len(x) THEN << >>
    ELSE IF AtLineStart(x, p) /\ header_semi(x, p) # 0
    THEN SubSeq(x, p, header_semi(x, p) - 1)
         \o strip_header_semis(x, header_end(x, header_semi(x, p)) + 1)
    ELSE <<x[p]>> \o strip_header_semis(x, p + 1)

\* [^.|><\-\n]
InLabel(c) == c \notin {".", "|", ">", "<", "-", "\n"}

\* r'-\.\s+([^.|><\-\n][^.|><\-\n]*?)\s+\.\->' matches at p with the first
\* \s+ ending at a and the group ending at b
label_matches(x, p, a, b) ==
    /\ StartsAt(x, p, <<"-", ".">>)
    /\ a >= p + 2 /\ a <= RunEnd(x, IsSpace, p + 2)
    /\ b >= a + 1 /\ b <= RunEnd(x, InLabel, a + 1)
    /\ RunEnd(x, IsSpace, b + 1) >= b + 1
    /\ StartsAt(x, RunEnd(x, IsSpace, b + 1) + 1, <<".", "-", ">">>)

\* the match the engine finds at p: the first \s+ is greedy, the group lazy
label_match(x, p) ==
    LET S == IF StartsAt(x, p, <<"-", ".">>)
             THEN {ab \in ((p + 2)..Len(x)) \X ((p + 3)..Len(x)) :
                       label_matches(x, p, ab[1], ab[2])}
             ELSE {}
    IN  IF S = {} THEN << >>
        ELSE CHOOSE ab \in S :
                 \A o \in S : o[1] < ab[1] \/ (o[1] = ab[1] /\ o[2] >= ab[2])

\* line 131: every match, left to right, becomes -. |\1| .->
RECURSIVE dotted_labels(_, _)
dotted_labels(x, p) ==
    IF p > Len(x) THEN << >>
    ELSE IF label_match(x, p) # << >>
    THEN LET a == label_match(x, p)[1]
             b == label_match(x, p)[2]
         IN  <<"-", ".", " ", "|">> \o SubSeq(x, a + 1, b) \o <<"|", " ", ".", "-", ">">>
             \o dotted_labels(x, RunEnd(x, IsSpace, b + 1) + 4)
    ELSE <<x[p]>> \o dotted_labels(x, p + 1)

\* str.splitlines(): the lines between the newlines, without a last empty one
RECURSIVE splitlines(_)
splitlines(x) ==
    IF x = << >> THEN << >>
    ELSE LET k == RunEnd(x, NotNewline, 1)
         IN  <<SubSeq(x, 1, k)>>
             \o (IF k + 1 > Len(x) THEN << >> ELSE splitlines(SubSeq(x, k + 2, Len(x))))

\* "\n".join(lines)
RECURSIVE join(_)
join(lines) ==
    IF lines = << >> THEN << >>
    ELSE IF Len(lines) = 1 THEN lines[1]
    ELSE lines[1] \o <<"\n">> \o join(Tail(lines))

\* line.rstrip().strip()
RECURSIVE strip(_)
strip(line) ==
    IF line = << >> THEN << >>
    ELSE IF IsSpace(line[1]) THEN strip(Tail(line))
    ELSE IF IsSpace(line[Len(line)]) THEN strip(SubSeq(line, 1, Len(line) - 1))
    ELSE line

\* stripped.rstrip(";")
RECURSIVE rstrip_semis(_)
rstrip_semis(line) ==
    IF line # << >> /\ line[Len(line)] = ";"
    THEN rstrip_semis(SubSeq(line, 1, Len(line) - 1))
    ELSE line

\* ("--" in stripped) or (".->" in stripped) or ("---" in stripped)
is_edge(stripped) ==
    \/ HasSeq(stripped, <<"-", "-">>)
    \/ HasSeq(stripped, <<".", "-", ">">>)
    \/ HasSeq(stripped, <<"-", "-", "-">>)

\* an edge line without its ';', in place of the line with it
MutEdgeLine(stripped) == rstrip_semis(stripped)

\* if not stripped.endswith(";"): stripped += ";"
edge_line(stripped) ==
    IF stripped[Len(stripped)] = ";" THEN stripped ELSE Append(stripped, ";")

\* the body of `for line in s.splitlines()`
fix_line(line) ==
    LET stripped == strip(line)
    IN  IF stripped = << >> THEN << >>
        ELSE IF StartsAt(stripped, 1, subgraph_word) \/ stripped = <<"e", "n", "d">>
        THEN stripped
        ELSE IF is_edge(stripped) THEN edge_line(stripped)
        ELSE rstrip_semis(stripped)

fix_lines(x) ==
    LET lines == splitlines(x)
    IN  join([i \in 1..Len(lines) |-> fix_line(lines[i])])

\* r'(\]|\))\s*(?=[A-Za-z0-9_]+\s*(?:-|\.))' matches at p
glued_at(x, p) ==
    LET w == RunEnd(x, IsSpace, p + 1)
        k == RunEnd(x, IsWord, w + 1)
        v == RunEnd(x, IsSpace, k + 1)
    IN  /\ x[p] \in {"]", ")"}
        /\ k >= w + 1
        /\ v + 1 <= Len(x) /\ x[v + 1] \in {"-", "."}

\* line 151: every match, left to right, becomes \1\n
RECURSIVE split_glued(_, _)
split_glued(x, p) ==
    IF p > Len(x) THEN << >>
    ELSE IF glued_at(x, p)
    THEN <<x[p], "\n">> \o split_glued(x, RunEnd(x, IsSpace, p + 1) + 1)
    ELSE <<x[p]>> \o split_glued(x, p + 1)

InBrackets(c) == c \notin {"]", "\n"}

\* m.group(1).replace(',', '')
without_commas(x) == SelectSeq(x, LAMBDA c : c # ",")

\* line 152: r'\[(.*?)\]', every match left to right, loses its commas
RECURSIVE strip_label_commas(_, _)
strip_label_commas(x, p) ==
    IF p > Len(x) THEN << >>
    ELSE IF x[p] = "[" /\ RunEnd(x, InBrackets, p + 1) + 1 <= Len(x)
            /\ x[RunEnd(x, InBrackets, p + 1) + 1] = "]"
    THEN <<"[">> \o without_commas(SubSeq(x, p + 1, RunEnd(x, InBrackets, p + 1)))
         \o <<"]">> \o strip_label_commas(x, RunEnd(x, InBrackets, p + 1) + 2)
    ELSE <<x[p]>> \o strip_label_commas(x, p + 1)

\* if not s.endswith("\n"): s += "\n"
end_with_newline(x) ==
    IF x # << >> /\ x[Len(x)] = "\n" THEN x ELSE Append(x, "\n")

\* the stages in the order of the code, innermost first: lines 128, 130,
\* 131, 133-149, 151, 152, 154
sanitize_mermaid(text) ==
    IF text = << >> THEN text
    ELSE end_with_newline(
             strip_label_commas(
                 split_glued(
                     fix_lines(
                         dotted_labels(
                             strip_header_semis(
                                 quote_titles(text, 1), 1), 1)), 1), 1))

\* the lines of the diagram sources of the model:
\*   subgraph Azure (eastus)
\*   A[Node]
\*   end
\*   subgraph G;
\*   A[x,y];
\*   A-->B
\*   A-->B[x]C-->D
\*   A -. l .-> B
\*   (an empty line)
SourceLines ==
    { <<"s", "u", "b", "g", "r", "a", "p", "h", " ", "A", "z", "u", "r", "e", " ", "(", "e", "a", "s", "t", "u", "s", ")">>,
      <<"A", "[", "N", "o", "d", "e", "]">>,
      <<"e", "n", "d">>,
      <<"s", "u", "b", "g", "r", "a", "p", "h", " ", "G", ";">>,
      <<"A", "[", "x", ",", "y", "]", ";">>,
      <<"A", "-", "-", ">", "B">>,
      <<"A", "-", "-", ">", "B", "[", "x", "]", "C", "-", "-", ">", "D">>,
      <<"A", " ", "-", ".", " ", "l", " ", ".", "-", ">", " ", "B">>,
      <<>> }

MaxLines == 3

\* the sources: up to MaxLines lines joined by newlines, with or without a
\* newline at the end, and the empty text
Sources ==
    {<< >>} \cup
    {join(ls) \o tail : ls \in SeqsUpTo(SourceLines, MaxLines), tail \in {<< >>, <<"\n">>}}

\* the sanitizer applied to a source
Sanitize ==
    /\ spc = "idle"
    /\ spc' = "once"
    /\ once' = sanitize_mermaid(src)
    /\ UNCHANGED <<src, twice>>
    /\ UNCHANGED <<fetchVars, envVars, resolverVars, pricingVars, normVars>>

\* the sanitizer applied to its own output
SanitizeAgain ==
    /\ spc = "once"
    /\ spc' = "twice"
    /\ twice' = sanitize_mermaid(once)
    /\ UNCHANGED <<src, once>>
    /\ UNCHANGED <<fetchVars, envVars, resolverVars, pricingVars, normVars>>

SanNext == Sanitize \/ SanitizeAgain
(***************************************************************************)
(* Specifications                                                          *)
(***************************************************************************)
NormIdle ==
    /\ npc = "idle"
    /\ ask = << >>
    /\ diagram = << >>
    /\ tf = << >>
    /\ nitems = << >>

SanIdle ==
    /\ spc = "idle"
    /\ src = << >>
    /\ once = << >>
    /\ twice = << >>

FetchInit == FetchIdle /\ EnvIdle /\ ResolverIdle /\ PricingIdle /\ NormIdle /\ SanIdle

\* every iteration is one blocking request with timeout=30: it returns or raises
FetchSpec == FetchInit /\ [][FetchNext]_vars /\ WF_vars(FetchNext)

\* a fresh process (empty cache) facing some catalog
ResolverInit ==
    /\ catalog \in SeqsNoRepeat(CatalogRecords, MaxCatalog)
    /\ vorder \in VariantOrderings
    /\ cache = EmptyCache
    /\ now = 0
    /\ ResolverIdle /\ FetchIdle /\ PricingIdle /\ NormIdle /\ SanIdle

ResolverSpec == ResolverInit /\ [][ResolverNext]_vars

\* a process with an empty cache facing one of the pricing catalogs; the
\* records of these catalogs carry the region code itself, so one order of
\* the region variants stands for all
Init ==
    /\ catalog \in PriceCatalogs
    /\ vorder \in {f \in VariantOrderings :
                      f["eastus"][1] = "eastus" /\ f["uksouth"][1] = "uksouth"}
    /\ cache = EmptyCache
    /\ now = 0
    /\ PricingIdle /\ FetchIdle /\ ResolverIdle /\ NormIdle /\ SanIdle

Spec == Init /\ [][Next]_vars

\* a request with a free text of up to MaxWords words, a diagram and an
\* infrastructure source
NormInit ==
    /\ ask \in {<< >>} \cup SeqsUpTo(AskWords, MaxWords)
    /\ diagram \in Diagrams
    /\ tf \in TfSources
    /\ npc = "idle"
    /\ nitems = << >>
    /\ FetchIdle /\ EnvIdle /\ ResolverIdle /\ PricingIdle /\ SanIdle

NormSpec == NormInit /\ [][NormNext]_vars


\* a diagram source to sanitize
SanInit ==
    /\ src \in Sources
    /\ spc = "idle"
    /\ once = << >>
    /\ twice = << >>
    /\ FetchIdle /\ EnvIdle /\ ResolverIdle /\ PricingIdle /\ NormIdle

SanSpec == SanInit /\ [][SanNext]_vars

\* a fresh process that calls resolvers again and again
CacheInit ==
    /\ catalog \in CacheCatalogs
    /\ vorder \in {f \in VariantOrderings :
                      f["eastus"][1] = "eastus" /\ f["uksouth"][1] = "uksouth"}
    /\ cache = EmptyCache
    /\ now = 0
    /\ ResolverIdle /\ FetchIdle /\ PricingIdle /\ NormIdle /\ SanIdle

CacheSpec == CacheInit /\ [][CacheNext]_vars

\* a process with an empty cache pricing load-balancer and gateway items
ComponentSpec == Init /\ [][ComponentNext]_vars

(***************************************************************************)
(* Claims about azure_retail_prices_fetch                                  *)
(***************************************************************************)
\* C9: a call always ends (returns or raises), issues at most MaxTries + 1
\* page requests and returns at most `limit` records.
BoundedPagination ==
    /\ [](requests <= MaxTries + 1)
    /\ [](fpc = "done" => Len(result) <= limit)
    /\ <>(fpc \in {"done", "raised"})

\* C9 witness: every page carried a continuation link and the page ceiling
\* ended the call.
BoundedPaginationWitness ==
    /\ fpc = "done"
    /\ requests = MaxTries + 1
    /\ nextLink
    /\ Len(result) < limit

\* C10: a non-success page status ends the call with the empty list and no
\* exception, whatever had been accumulated.
NonSuccessYieldsEmpty ==
    (fpc \in {"done", "raised"} /\ NonSuccess(lastStatus))
        => (fpc = "done" /\ result = << >>)

\* C10 witness: a later page fails after records had been retrieved.
NonSuccessYieldsEmptyWitness ==
    /\ fpc = "done"
    /\ NonSuccess(lastStatus)
    /\ requests > 1
    /\ Len(out) > 0
    /\ result = << >>

(***************************************************************************)
(* Claims about the price resolvers                                        *)
(***************************************************************************)
SinglePriceServices == {"app_service", "vm", "azure_sql", "storage", "redis", "monitor"}

HourlyFirstServices == {"app_service", "vm", "azure_sql"}

\* the smallest monthly price among the records of a non-empty pool
MinMonthly(pool) ==
    CHOOSE m \in {monthly_from_retail(pool[i]) : i \in 1..Len(pool)} :
        \A i \in 1..Len(pool) : m <= monthly_from_retail(pool[i])

\* a completed search of the catalog by a single-price resolver
Searched(services) ==
    /\ rpc = "done"
    /\ rq.service \in services
    /\ ~rres.raised

\* C7: a single-price resolver returns the minimum monthly price over its
\* candidate records, whatever the order in which the catalog returns them.
CheapestMatch ==
    Searched(SinglePriceServices) =>
        LET pool == candidate_records(rq.service, rq.sku, vorder[rq.region], catalog)
        IN  /\ Len(pool) > 0 => rres.val = Some(MinMonthly(pool))
            /\ \A cat2 \in Reorderings(catalog) :
                  resolver(rq.service, rq.sku, rq.region, vorder[rq.region], cat2,
                           EmptyCache, now, FALSE).val = rres.val

\* C8: when the records the queries of the app-service, vm or sql resolver
\* return include hourly and flat records, the returned price is the monthly
\* figure of an hourly record.
HourlyPreferred ==
    Searched(HourlyFirstServices) =>
        LET got == matched_records(rq.service, rq.sku, vorder[rq.region], catalog)
        IN  ( /\ \E i \in 1..Len(got) : IsHourly(got[i])
              /\ \E i \in 1..Len(got) : ~IsHourly(got[i])
              /\ rres.val.some )
            => \E i \in 1..Len(got) :
                  IsHourly(got[i]) /\ monthly_from_retail(got[i]) = rres.val.v

(***************************************************************************)
(* Claims about the price cache                                            *)
(***************************************************************************)
Calls == 1..Len(log)

\* call i searched the catalog and stored what it found
Stored(i) == (~log[i].raised) /\ log[i].calls > 0 /\ log[i].val.some

\* call i is the latest call before call j that stored a value for j's key
LatestStore(i, j) ==
    /\ i < j /\ log[i].key = log[j].key /\ Stored(i)
    /\ \A k \in Calls : (i < k /\ k < j /\ log[k].key = log[j].key) => ~Stored(k)

\* what the call in progress gets from a search of the catalog
FreshSearch ==
    resolver(rq.service, rq.sku, rq.region, vorder[rq.region], catalog,
             EmptyCache, now, rq.fault)

\* C11: a call made less than TTL seconds after the call that stored the
\* value for its key returns that value and issues no catalog request; a
\* call made TTL seconds or more after it issues catalog requests and
\* returns what the search of the catalog yields, not the stored value.
CacheHitWithoutNetwork ==
    \A i, j \in Calls :
        LatestStore(i, j) =>
            IF log[j].at - log[i].at < TTL
            THEN /\ log[j].val = log[i].val
                 /\ log[j].calls = 0
                 /\ ~log[j].raised
            ELSE /\ log[j].calls > 0
                 /\ (rpc = "done" /\ j = Len(log)) =>
                        /\ rres.val = FreshSearch.val
                        /\ rres.raised = FreshSearch.raised

\* a stored value was served from the cache just before its expiry, and the
\* call made at its expiry got another value from the catalog
CacheHitWithoutNetworkWitness ==
    /\ rpc = "done" /\ Len(log) = 3
    /\ LatestStore(1, 2) /\ log[2].at - log[1].at = TTL - 1 /\ log[2].calls = 0
    /\ LatestStore(1, 3) /\ log[3].at - log[1].at >= TTL
    /\ log[3].val.some /\ log[3].val # log[1].val

(***************************************************************************)
(* Claims about price_items                                                *)
(***************************************************************************)
Lines == 1..Len(resp.items)

HasNote(kind, i) == \E k \in 1..Len(resp.notes) : resp.notes[k].kind = kind /\ resp.notes[k].item = i

\* item i is priced by a resolver
Looked(i) == req[i].cloud = "azure" /\ req[i].service \in ResolverServices

\* every query made for item i comes back without records
NoRecords(i) ==
    /\ Looked(i)
    /\ \A k \in 1..Len(catalog) :
          catalog[k].reg \notin region_variants(item_region(req[i]))

\* the lookup of item i raised: the cache held no live entry for its key
\* and its catalog request failed
LookupRaised(i) ==
    /\ Looked(i) /\ faults[i]
    /\ ~cache_get(seen[i], resolver_key(req[i].service, req[i].sku, item_region(req[i])),
                  now).some

\* item i has candidate records and its request does not fail
Served(i) ==
    /\ req[i].cloud = "azure" /\ req[i].service \in SinglePriceServices
    /\ ~faults[i]
    /\ Len(candidate_records(req[i].service, req[i].sku,
                             vorder[item_region(req[i])], catalog)) > 0

\* C2: a price miss (no records for any query, or a raising lookup) leaves
\* a complete estimate: one line per item, the missed item's line at 0 with
\* a "No price found" note, the other items priced.
PriceMissNotFatal ==
    req # << >> =>
        /\ Len(resp.items) = Len(req)
        /\ \A i \in Lines : resp.items[i].service = req[i].service
        /\ \A i \in Lines : (NoRecords(i) \/ LookupRaised(i)) =>
              /\ resp.items[i].unit_monthly = 0
              /\ resp.items[i].monthly = 0
              /\ HasNote("no_price", i)
        /\ \A i \in Lines : Served(i) =>
              /\ ~HasNote("no_price", i)
              /\ resp.items[i].unit_monthly > 0

\* C2 witness: a call in which the lookup of one item raised and another
\* item was priced.
PriceMissNotFatalWitness ==
    /\ Len(req) = 2
    /\ \E i, j \in Lines :
          /\ LookupRaised(i)
          /\ resp.items[i].monthly = 0
          /\ Served(j)
          /\ resp.items[j].monthly > 0

\* a and b are the same item but for one key
DifferOnlyInQty(a, b) == a # b /\ [a EXCEPT !.qty = b.qty] = b

DifferOnlyInHours(a, b) == a # b /\ [a EXCEPT !.hours = b.hours] = b

\* the qty / hours an item states (a missing key is the documented default)
GivenQty(it) == IF it.qty.some THEN it.qty.v ELSE 1

GivenHours(it) == IF it.hours.some THEN it.hours.v ELSE HOURS_PER_MONTH

Abs(x) == IF x < 0 THEN 0 - x ELSE x

\* C5: for two items that differ only in hours, one at h and one at the full
\* month, priced against the same catalog, cache state and faults, with a
\* non-zero unit price: monthly(h) / monthly(full) = h / full
\* up to the rounding of the two figures to cents (half a cent each).
DutyCycleScaling ==
    \A i, j \in Lines :
        ( /\ DifferOnlyInHours(req[i], req[j])
          /\ faults[i] = faults[j] /\ seen[i] = seen[j]
          /\ GivenHours(req[j]) = HOURS_PER_MONTH
          /\ resp.items[i].unit_monthly # 0 )
        => 2 * Abs(HOURS_PER_MONTH * resp.items[i].monthly
                   - GivenHours(req[i]) * resp.items[j].monthly)
              <= HOURS_PER_MONTH + GivenHours(req[i])

\* C6: of two items that differ only in qty, priced against the same catalog,
\* cache state and faults, the one with the larger qty has no smaller
\* monthly price.
QuantityMonotone ==
    \A i, j \in Lines :
        ( /\ DifferOnlyInQty(req[i], req[j])
          /\ faults[i] = faults[j] /\ seen[i] = seen[j]
          /\ GivenQty(req[i]) <= GivenQty(req[j]) )
        => resp.items[i].monthly <= resp.items[j].monthly

\* C6 witness: such a pair with a strictly larger price for the larger qty
QuantityMonotoneWitness ==
    \E i, j \in Lines :
        /\ DifferOnlyInQty(req[i], req[j])
        /\ faults[i] = faults[j] /\ seen[i] = seen[j]
        /\ GivenQty(req[i]) < GivenQty(req[j])
        /\ 0 < resp.items[i].monthly
        /\ resp.items[i].monthly < resp.items[j].monthly

(***************************************************************************)
(* Claims about multi-component pricing                                    *)
(***************************************************************************)
\* the components the resolver handed to item i
Components(i) ==
    resolver(req[i].service, req[i].sku, item_region(req[i]),
             vorder[item_region(req[i])], catalog, seen[i], now, faults[i])

\* item i is an item of the service and its resolver returned components
Combined(i, service) ==
    /\ req[i].cloud = "azure" /\ req[i].service = service
    /\ ~Components(i).raised /\ Components(i).val.some

\* the attribute's value: the item's own if it gives one, else the default
Explicit(x, d) == IF x.some THEN x.v ELSE d

\* C12: the unit price of an lb item is rules * rule_hour_monthly + data_gb *
\* data_gb_monthly and that of an app_gateway item is base_monthly + cu *
\* capacity_unit_monthly, each attribute being the item's own value when the
\* item gives one and the default otherwise; the "defaulted" note of an
\* attribute is there exactly when the item does not give the attribute.
MultiComponentDefaults ==
    \A i \in 1..Len(req) :
        /\ Combined(i, "lb") =>
              /\ resp.items[i].unit_monthly =
                    Explicit(req[i].rules, DEFAULT_LB_RULES) * Components(i).val.v.x
                    + Explicit(req[i].data_gb, DEFAULT_LB_DATA_GB) * Components(i).val.v.y
              /\ HasNote("lb_rules_defaulted", i) <=> ~req[i].rules.some
              /\ HasNote("lb_data_defaulted", i) <=> ~req[i].data_gb.some
        /\ Combined(i, "app_gateway") =>
              /\ resp.items[i].unit_monthly =
                    Components(i).val.v.x
                    + Explicit(req[i].capacity_units, DEFAULT_APPGW_CAPACITY_UNITS)
                      * Components(i).val.v.y
              /\ HasNote("appgw_capacity_units_defaulted", i) <=> ~req[i].capacity_units.some

(***************************************************************************)
(* Normalizer claims                                                       *)
(***************************************************************************)
\* the scan buffer of the call
CallBlob == Blob(ask, diagram, tf)

\* the items of a service in the returned list
ItemsOf(service) == {i \in 1..Len(nitems) : nitems[i].service = service}

merge_key(it) == <<it.cloud, it.service, it.sku, it.region>>

\* the positions of the buffer where a VM keyword starts
VmOccurrences ==
    {i \in 1..Len(CallBlob) :
        \/ CallBlob[i] = "vmss" \/ CallBlob[i] = "vm"
        \/ Phrase(CallBlob, i, <<"virtual", "machine">>)}

\* C3: when a gateway keyword and a load balancer keyword both occur in the
\* input, the returned list holds exactly one app_gateway item and no lb item.
GatewayPrecedence ==
    (npc = "done" /\ gateway_keyword(CallBlob) /\ lb_keyword(CallBlob))
    => Cardinality(ItemsOf("app_gateway")) = 1 /\ ItemsOf("lb") = {}

\* C3 witness: a call whose input held both keywords returned its gateway item.
GatewayPrecedenceWitness ==
    /\ npc = "done"
    /\ gateway_keyword(CallBlob) /\ lb_keyword(CallBlob)
    /\ ItemsOf("app_gateway") # {}

\* C4: no two returned items share the merge key (cloud, service, sku,
\* region), and the VM keyword occurrences are represented by one vm item
\* whose qty is their number.
MergeInvariant ==
    npc = "done" =>
        /\ \A i, j \in 1..Len(nitems) :
               merge_key(nitems[i]) = merge_key(nitems[j]) => i = j
        /\ VmOccurrences # {} =>
               /\ Cardinality(ItemsOf("vm")) = 1
               /\ \A i \in ItemsOf("vm") : nitems[i].qty = Some(Cardinality(VmOccurrences))
        /\ VmOccurrences = {} => ItemsOf("vm") = {}

\* C4 witness: a call whose input held several VM keywords, among them a
\* "vm scale set", returned a vm item.
MergeInvariantWitness ==
    /\ npc = "done"
    /\ Cardinality(VmOccurrences) >= 3
    /\ \E i \in 1..Len(CallBlob) : Phrase(CallBlob, i, <<"vm", "scale", "set">>)
    /\ ItemsOf("vm") # {}
(***************************************************************************)
(* Sanitizer claims                                                        *)
(***************************************************************************)
\* C1: sanitize_mermaid is idempotent: applied to its own output it returns
\* that output unchanged.
Idempotent == spc = "twice" => twice = once

\* the outputs sanitize_mermaid has produced so far
Outputs == (IF spc \in {"once", "twice"} THEN {once} ELSE {})
           \cup (IF spc = "twice" THEN {twice} ELSE {})

\* the lines of an output, without the blanks at their ends
OutLines(o) == {strip(splitlines(o)[k]) : k \in 1..Len(splitlines(o))}

IsOpener(line) == StartsAt(line, 1, subgraph_word)

IsCloser(line) == line = <<"e", "n", "d">>

\* the line contains an edge operator: "--" or ".->"
HasEdgeOperator(line) ==
    HasSeq(line, <<"-", "-">>) \/ HasSeq(line, <<".", "-", ">">>)

EndsWithSemi(line) == line # << >> /\ line[Len(line)] = ";"

\* C13: in every output, a line that contains an edge operator ends with
\* ';', and a subgraph header, an 'end' closer or a node declaration (any
\* other non-empty line) does not end with ';'.
TerminatorDiscipline ==
    \A o \in Outputs : \A line \in OutLines(o) :
        IF IsOpener(line) \/ IsCloser(line) THEN ~EndsWithSemi(line)
        ELSE IF HasEdgeOperator(line) THEN EndsWithSemi(line)
        ELSE ~EndsWithSemi(line)

\* the applications of sanitize_mermaid made so far: input and output
Applications ==
    (IF spc \in {"once", "twice"} THEN {[input |-> src, output |-> once]} ELSE {})
    \cup (IF spc = "twice" THEN {[input |-> once, output |-> twice]} ELSE {})

\* the number of lines of a text that are subgraph openers / 'end' closers
Openers(x) ==
    Cardinality({k \in 1..Len(splitlines(x)) : IsOpener(strip(splitlines(x)[k]))})

Closers(x) ==
    Cardinality({k \in 1..Len(splitlines(x)) : IsCloser(strip(splitlines(x)[k]))})

\* the last n lines of a text are 'end' closers
EndsWithClosers(x, n) ==
    /\ Len(splitlines(x)) >= n
    /\ \A k \in 1..Len(splitlines(x)) :
          k > Len(splitlines(x)) - n => IsCloser(strip(splitlines(x)[k]))

\* C14: every output has at least as many 'end' closers as subgraph
\* openers; when the input has fewer closers than openers, the output ends
\* with the missing closers.
GroupBalance ==
    \A a \in Applications :
        /\ Closers(a.output) >= Openers(a.output)
        /\ Closers(a.input) < Openers(a.input) =>
              EndsWithClosers(a.output, Openers(a.input) - Closers(a.input))

\* C15: every output, that of the empty text and of a text ending in blank
\* lines included, ends with exactly one newline character.
TrailingNewline ==
    \A o \in Outputs :
        /\ Len(o) >= 1 /\ o[Len(o)] = "\n"
        /\ Len(o) >= 2 => o[Len(o) - 1] # "\n"

\* the header line: subgraph Azure (eastus)
RegionHeader ==
    <<"s", "u", "b", "g", "r", "a", "p", "h", " ", "A", "z", "u", "r", "e", " ",
      "(", "e", "a", "s", "t", "u", "s", ")">>

\* the header line as the claim has it: subgraph "Azure (eastus)"
QuotedRegionHeader ==
    <<"s", "u", "b", "g", "r", "a", "p", "h", " ", "\"", "A", "z", "u", "r", "e", " ",
      "(", "e", "a", "s", "t", "u", "s", ")", "\"">>

\* the three-line source: subgraph Azure (eastus) / A[Node] / end
RegionExample == join(<<RegionHeader, <<"A", "[", "N", "o", "d", "e", "]">>, <<"e", "n", "d">>>>)

HasLine(x, line) == \E k \in 1..Len(splitlines(x)) : splitlines(x)[k] = line

\* C16: a subgraph header followed by a parenthesized qualifier comes out
\* as one quoted title without ';': a source with the line
\* `subgraph Azure (eastus)` yields the line `subgraph "Azure (eastus)"`, and
\* the three-line example yields it as its first line, with one opener and
\* one 'end'.
TitleQuoting ==
    \A a \in Applications :
        /\ HasLine(a.input, RegionHeader) => HasLine(a.output, QuotedRegionHeader)
        /\ a.input = RegionExample =>
              /\ splitlines(a.output)[1] = QuotedRegionHeader
              /\ Openers(a.output) = 1
              /\ Closers(a.output) = 1
=============================================================================
